---------------------------- MODULE Spec2Model ----------------------------
(***************************************************************************)
(* Triad369 Launchpad: the hub's process lifecycle and port allocation     *)
(* (launchpad/apps/runner.py, launchpad/cli.py), its runtime state store   *)
(* (launchpad/apps/runtime.py) and its artifact packager                   *)
(* (launchpad/packager.py).                                                *)
(*                                                                         *)
(* Four specifications share the variables below:                          *)
(*   SpecStore  save_runtime / load_runtime on one file                    *)
(*   SpecAlloc  allocate_port on one range and exclusion set               *)
(*   Spec       the orchestrator: apps run / apps stop, one CLI invocation *)
(*              at a time, with the operating system acting in between     *)
(*   SpecPack   pack / verify on one directory tree                        *)
(* Each specification holds the variables of the others at their idle      *)
(* values.                                                                 *)
(***************************************************************************)
EXTENDS Integers, Sequences, FiniteSets, TLC

-----------------------------------------------------------------------------
(* Python values and JSON documents.  Every value carries its type in the  *)
(* field t, so that isinstance() is a test of t.  A dict or a JSON object  *)
(* is a function from strings; a list, a tuple or a JSON array is a        *)
(* sequence.                                                               *)

PyNone == [t |-> "none"]
PyBool(b) == [t |-> "bool", v |-> b]
PyInt(n) == [t |-> "int", v |-> n]
PyStr(s) == [t |-> "str", v |-> s]
PyList(s) == [t |-> "list", v |-> s]
PyTuple(s) == [t |-> "tuple", v |-> s]
PyDict(f) == [t |-> "dict", v |-> f]

JNull == [t |-> "null"]
JBool(b) == [t |-> "true/false", v |-> b]
JNumber(n) == [t |-> "number", v |-> n]
JString(s) == [t |-> "string", v |-> s]
JArray(s) == [t |-> "array", v |-> s]
JObject(f) == [t |-> "object", v |-> f]

isinstance_dict(x) == x.t = "dict"

EmptyDict == PyDict([k \in {} |-> PyNone])

\* d.get(k, default) of a dict d
Get(d, k, default) == IF k \in DOMAIN d.v THEN d.v[k] ELSE default

\* d with d[k] = x
SetItem(d, k, x) ==
    PyDict([j \in DOMAIN d.v \cup {k} |-> IF j = k THEN x ELSE d.v[j]])

\* d.setdefault(k, x): d itself when it has the key
SetDefault(d, k, x) == IF k \in DOMAIN d.v THEN d ELSE SetItem(d, k, x)

\* json.dumps: a list and a tuple both become an array
RECURSIVE dumps(_)
dumps(x) ==
    CASE x.t = "none" -> JNull
      [] x.t = "bool" -> JBool(x.v)
      [] x.t = "int" -> JNumber(x.v)
      [] x.t = "str" -> JString(x.v)
      [] x.t \in {"list", "tuple"} ->
            JArray([i \in DOMAIN x.v |-> dumps(x.v[i])])
      [] x.t = "dict" -> JObject([k \in DOMAIN x.v |-> dumps(x.v[k])])

\* json.loads of a well-formed document: an array becomes a list
RECURSIVE loads(_)
loads(j) ==
    CASE j.t = "null" -> PyNone
      [] j.t = "true/false" -> PyBool(j.v)
      [] j.t = "number" -> PyInt(j.v)
      [] j.t = "string" -> PyStr(j.v)
      [] j.t = "array" -> PyList([i \in DOMAIN j.v |-> loads(j.v[i])])
      [] j.t = "object" -> PyDict([k \in DOMAIN j.v |-> loads(j.v[k])])

-----------------------------------------------------------------------------
(* The runtime state file.  A file is absent, or holds a text; a text is   *)
(* either a well-formed JSON document or bytes json.loads rejects.         *)

NoFile == [exists |-> FALSE, parses |-> FALSE, doc |-> JNull]
Garbage == [exists |-> TRUE, parses |-> FALSE, doc |-> JNull]
TextOf(j) == [exists |-> TRUE, parses |-> TRUE, doc |-> j]

\* The result of a call: a value, or an exception that leaves the call.
Return(x) == [raised |-> FALSE, val |-> x]
Raise == [raised |-> TRUE, val |-> PyNone]

EmptyRuntime == PyDict([k \in {"apps"} |-> EmptyDict])

\* json.loads(path.read_text()) of an existing file
read_json(f) == IF f.parses THEN Return(loads(f.doc)) ELSE Raise

\* load_runtime without its try/except: the parse error leaves the call
load_runtime_unguarded(f) ==
    IF ~f.exists THEN Return(EmptyRuntime)
    ELSE LET r == read_json(f)
         IN  IF r.raised THEN Raise
             ELSE IF ~isinstance_dict(r.val) THEN Return(EmptyRuntime)
             ELSE Return(SetDefault(r.val, "apps", EmptyDict))

\* load_runtime with its isinstance test inverted
load_runtime_inverted(f) ==
    IF ~f.exists THEN Return(EmptyRuntime)
    ELSE LET r == read_json(f)
         IN  IF r.raised THEN Return(EmptyRuntime)
             ELSE IF isinstance_dict(r.val) THEN Return(EmptyRuntime)
             ELSE Return(r.val)

load_runtime(f) ==
    IF ~f.exists THEN Return(EmptyRuntime)
    ELSE LET r == read_json(f)
         IN  IF r.raised THEN Return(EmptyRuntime)
             ELSE IF ~isinstance_dict(r.val) THEN Return(EmptyRuntime)
             ELSE Return(SetDefault(r.val, "apps", EmptyDict))

\* save_runtime: the file's new content
save_runtime(data) == TextOf(dumps(data))

-----------------------------------------------------------------------------
(* The port allocator.  busy is the set of ports on which a bind to        *)
(* 127.0.0.1 fails at the time of the call (a listener holds them).        *)

MaxPorts == 3
Ports == 9000 .. (9000 + MaxPorts - 1)

\* The optional parameter used: None, or a set of ports
NoneUsed == [none |-> TRUE, ports |-> {}]
UsedSet(S) == [none |-> FALSE, ports |-> S]

\* is_port_free: the bind succeeds
is_port_free(p, busy) == p \notin busy

NoFreePort == [raised |-> TRUE, port |-> -1]
Port(p) == [raised |-> FALSE, port |-> p]

\* The loop of allocate_port from p on, the exclusion test left out
RECURSIVE scan_ignoring_used(_, _, _, _)
scan_ignoring_used(p, end, used, busy) ==
    IF p > end THEN NoFreePort
    ELSE IF is_port_free(p, busy) THEN Port(p)
    ELSE scan_ignoring_used(p + 1, end, used, busy)

\* The loop of allocate_port taking the last port that will do, not the first
RECURSIVE scan_highest(_, _, _, _)
scan_highest(p, end, used, busy) ==
    IF p > end THEN NoFreePort
    ELSE LET later == scan_highest(p + 1, end, used, busy)
         IN  IF ~later.raised THEN later
             ELSE IF p \notin used /\ is_port_free(p, busy) THEN Port(p)
             ELSE NoFreePort

\* The loop of allocate_port from p on: for p in range(p, end + 1)
RECURSIVE scan(_, _, _, _)
scan(p, end, used, busy) ==
    IF p > end THEN NoFreePort
    ELSE IF p \in used THEN scan(p + 1, end, used, busy)
    ELSE IF is_port_free(p, busy) THEN Port(p)
    ELSE scan(p + 1, end, used, busy)

\* allocate_port(start, end, used): used = used or set(), then the loop
allocate_port(start, end, used, busy) ==
    LET u == IF used.none \/ used.ports = {} THEN {} ELSE used.ports
    IN  scan(start, end, u, busy)

-----------------------------------------------------------------------------
(* The app registry (apps.toml as load_registry returns it): two apps with *)
(* the same port range, one whose range overlaps theirs, and one that is   *)
(* still a placeholder with no start command.                              *)

Registry ==
    << [name |-> "a", default_port |-> 9000, port_max |-> 9001,
        start_cmd |-> "serve --port {PORT}", enabled_by_default |-> TRUE,
        health_path |-> "/health", capsule_mode |-> "http"],
       [name |-> "b", default_port |-> 9000, port_max |-> 9001,
        start_cmd |-> "serve --port {PORT}", enabled_by_default |-> TRUE,
        health_path |-> "", capsule_mode |-> "http"],
       [name |-> "c", default_port |-> 9001, port_max |-> 9000 + MaxPorts - 1,
        start_cmd |-> "serve --port {PORT}", enabled_by_default |-> FALSE,
        health_path |-> "/health", capsule_mode |-> "http"],
       [name |-> "w", default_port |-> 9000, port_max |-> 9001,
        start_cmd |-> "", enabled_by_default |-> FALSE,
        health_path |-> "", capsule_mode |-> "wip"] >>

AppNames == { Registry[i].name : i \in DOMAIN Registry }

\* app_by_name: the registry's first entry of that name
app_by_name(name) ==
    Registry[CHOOSE i \in DOMAIN Registry :
                /\ Registry[i].name = name
                /\ \A j \in 1 .. (i - 1) : Registry[j].name # name]

\* A name given on the command line that is in no registry
Ghost == "ghost"
All == "--all"

\* _select_apps(name, all_apps): the apps, or BadParameter
select_apps(sel) ==
    IF sel = All THEN [raised |-> FALSE, apps |-> Registry]
    ELSE IF sel \in AppNames
         THEN [raised |-> FALSE, apps |-> <<app_by_name(sel)>>]
         ELSE [raised |-> TRUE, apps |-> <<>>]

\* The RuntimeRecord apps run writes for a launch
Payload(pid, port, name, clock) ==
    PyDict([k \in {"pid", "port", "log", "running", "started_at", "path"} |->
        CASE k = "pid" -> PyInt(pid)
          [] k = "port" -> PyInt(port)
          [] k = "log" -> PyStr("log")
          [] k = "running" -> PyBool(TRUE)
          [] k = "started_at" -> PyStr(ToString(clock))
          [] k = "path" -> PyStr("path")])

\* A write of the runtime file by a call: the new content, or an exception
\* that leaves the file as it was
Written(f) == [raised |-> FALSE, file |-> f]
WriteRaised(f) == [raised |-> TRUE, file |-> f]

\* update_runtime_running writing a document that holds the new record only
update_runtime_running_fresh(f, app_name, payload) ==
    [raised |-> FALSE,
     file |-> TextOf(dumps(SetItem(EmptyRuntime, "apps", SetItem(EmptyDict, app_name, payload))))]

\* update_runtime_running that also marks every other record as not running
update_runtime_running_reaping(f, app_name, payload) ==
    LET apps == load_runtime(f).val.v["apps"]
    IN  [raised |-> FALSE,
         file |-> TextOf(dumps(SetItem(EmptyRuntime, "apps",
                    PyDict([n \in (IF isinstance_dict(apps) THEN DOMAIN apps.v ELSE {})
                                     \cup {app_name} |->
                        IF n = app_name THEN payload
                        ELSE IF isinstance_dict(apps.v[n])
                             THEN SetItem(apps.v[n], "running", PyBool(FALSE))
                             ELSE apps.v[n]]))))]

\* update_runtime_running that updates the record it finds with the new
\* fields (rt["apps"][app_name].update(payload)) instead of replacing it
update_runtime_running_merge(f, app_name, payload) ==
    LET rt == SetDefault(load_runtime(f).val, "apps", EmptyDict)
        apps == rt.v["apps"]
        old == Get(apps, app_name, EmptyDict)
        merged == IF isinstance_dict(old)
                  THEN PyDict([k \in DOMAIN old.v \cup DOMAIN payload.v |->
                          IF k \in DOMAIN payload.v THEN payload.v[k] ELSE old.v[k]])
                  ELSE payload
    IN  IF ~isinstance_dict(apps) THEN WriteRaised(f)
        ELSE Written(save_runtime(SetItem(rt, "apps", SetItem(apps, app_name, merged))))

\* update_runtime_running(runtime_path, app_name, payload); an "apps" value
\* that is no dict refuses the item assignment
update_runtime_running(f, app_name, payload) ==
    LET rt == SetDefault(load_runtime(f).val, "apps", EmptyDict)
        apps == rt.v["apps"]
    IN  IF ~isinstance_dict(apps) THEN WriteRaised(f)
        ELSE Written(save_runtime(SetItem(rt, "apps", SetItem(apps, app_name, payload))))

\* mark_stopped that replaces the record by a new one holding running and
\* stopped_at only
mark_stopped_dropping(f, app_name, clock) ==
    LET rt == load_runtime(f).val
        apps == Get(rt, "apps", EmptyDict)
    IN  IF ~isinstance_dict(apps) THEN WriteRaised(f)
        ELSE IF isinstance_dict(Get(apps, app_name, PyNone))
             THEN Written(save_runtime(SetItem(rt, "apps", SetItem(apps, app_name,
                     PyDict([k \in {"running", "stopped_at"} |->
                        IF k = "running" THEN PyBool(FALSE)
                        ELSE PyStr(ToString(clock))])))))
             ELSE Written(save_runtime(rt))

\* mark_stopped(runtime_path, app_name); an "apps" value that is no dict has
\* no get
mark_stopped(f, app_name, clock) ==
    LET rt == load_runtime(f).val
        apps == Get(rt, "apps", EmptyDict)
    IN  IF ~isinstance_dict(apps) THEN WriteRaised(f)
        ELSE LET info == Get(apps, app_name, PyNone)
             IN  IF isinstance_dict(info)
                 THEN LET stopped == SetItem(SetItem(info, "stopped_at", PyStr(ToString(clock))),
                                             "running", PyBool(FALSE))
                      IN  Written(save_runtime(SetItem(rt, "apps", SetItem(apps, app_name, stopped))))
                 ELSE Written(save_runtime(rt))

\* int(x): the strings of this model are not numerals
py_int(x) ==
    CASE x.t = "int" -> [raised |-> FALSE, n |-> x.v]
      [] x.t = "bool" -> [raised |-> FALSE, n |-> IF x.v THEN 1 ELSE 0]
      [] OTHER -> [raised |-> TRUE, n |-> 0]

\* apps_stop reading the record's port where it should read its pid
recorded_pid_port(all_rt, n) ==
    LET info == Get(all_rt, n, EmptyDict)
    IN  IF isinstance_dict(info) THEN py_int(Get(info, "port", PyInt(0)))
        ELSE [raised |-> FALSE, n |-> 0]

\* apps_stop: pid = int(info.get("pid", 0)) if isinstance(info, dict) else 0
recorded_pid(all_rt, n) ==
    LET info == Get(all_rt, n, EmptyDict)
    IN  IF isinstance_dict(info) THEN py_int(Get(info, "pid", PyInt(0)))
        ELSE [raised |-> FALSE, n |-> 0]

\* apps_stop with the test pid >= 0
should_signal_zero(pid) == pid >= 0

\* apps_stop: if pid > 0
should_signal(pid) == pid > 0

\* apps_stop with only the process-not-found error caught
kill_swallowed_lookup_only(outcome) == outcome \in {"delivered", "esrch"}

\* apps_stop: try: os.kill(pid, SIGTERM) except Exception: pass
kill_swallowed(outcome) == outcome \in {"delivered", "esrch", "eperm"}

\* apps_run with the port not added to used
claim_port_forgotten(used, port) == used

\* apps_run: used.add(port)
claim_port(used, port) == used \cup {port}

-----------------------------------------------------------------------------
(* The artifact packager.  A directory tree is a function from the         *)
(* relative paths of its files to [data, mtime]; a file's data is raw      *)
(* bytes, a JSON text, or a zip archive, which is the sequence of its      *)
(* entries [name, data, mtime].                                            *)

MANIFEST_FILE_NAME == "artifact.manifest.json"

\* Where pack's --zip lies when it lies inside the packed directory
ZipInside == "build/artifact.zip"

\* The relative paths of the model, in the order sorted() gives Path objects
PathOrder ==
    <<".git/config", "a.txt", MANIFEST_FILE_NAME, ZipInside, "coverage/lcov.info",
      "data.db", "dist/app.js", "node_modules/a.js", "src/main.py",
      "src/node_modules/b.js">>
Paths == { PathOrder[i] : i \in DOMAIN PathOrder }

Bytes(n) == [t |-> "bytes", v |-> n]
Text(j) == [t |-> "text", v |-> j]
Zip(entries) == [t |-> "zip", v |-> entries]
\* What a read of the archive being written gives: the entries so far
Partial(entries) == [t |-> "partial", v |-> entries]
NoZip == [t |-> "absent"]

File(data, mtime) == [data |-> data, mtime |-> mtime]

\* sorted(source_dir.rglob("*")), the directories left out
sorted_files(tree) == SelectSeq(PathOrder, LAMBDA q : q \in DOMAIN tree)

\* _sha256_file, _sha256_reader, _sha256_bytes: the digest, taken to be
\* different for different contents
sha256(data) == ToString(data)

\* build_manifest(source_dir, project_name=, target=, prompt=), called at
\* time ts with no generated_at
build_manifest(tree, project_name, target, prompt, ts) ==
    LET listed == SelectSeq(sorted_files(tree), LAMBDA q : q # MANIFEST_FILE_NAME)
    IN  PyDict([k \in {"project_name", "target", "prompt_sha256", "timestamp", "files"} |->
          CASE k = "project_name" -> PyStr(project_name)
            [] k = "target" -> PyStr(target)
            [] k = "prompt_sha256" -> PyStr(sha256(prompt))
            [] k = "timestamp" -> PyStr(ToString(ts))
            [] k = "files" -> PyList([i \in DOMAIN listed |->
                  PyDict([f \in {"path", "sha256"} |->
                     IF f = "path" THEN PyStr(listed[i])
                     ELSE PyStr(sha256(tree[listed[i]].data))])])])

\* A tree with the file at path q written at time ts
WriteFile(tree, q, data, ts) ==
    [r \in DOMAIN tree \cup {q} |-> IF r = q THEN File(data, ts) ELSE tree[r]]

\* write_manifest(source_dir, manifest) at time ts
write_manifest(tree, manifest, ts) ==
    WriteFile(tree, MANIFEST_FILE_NAME, Text(dumps(manifest)), ts)

\* json.loads of a file's or a zip entry's data: bytes are no JSON
parse_json(data) ==
    IF data.t = "text" THEN Return(loads(data.v)) ELSE Raise

\* read_manifest(source_dir): a missing or unparseable file raises
read_manifest(tree) ==
    IF MANIFEST_FILE_NAME \in DOMAIN tree
    THEN parse_json(tree[MANIFEST_FILE_NAME].data)
    ELSE Raise

\* str(x) of a manifest field
py_str(x) == IF x.t = "str" THEN x.v ELSE ToString(x.v)

\* What a verification returns: (ok, errors), or an exception
Verdict(errors) == [raised |-> FALSE, ok |-> errors = <<>>, errors |-> errors]
VerifyRaised == [raised |-> TRUE, ok |-> FALSE, errors |-> <<>>]
Error(kind, rel) == [kind |-> kind, path |-> rel]

\* One row of verify_manifest_dir's loop: the errors it appends
check_row_dir(tree, row) ==
    IF ~isinstance_dict(row) THEN <<Error("Invalid manifest row", "")>>
    ELSE LET rel == py_str(Get(row, "path", PyStr("")))
             expected == py_str(Get(row, "sha256", PyStr("")))
         IN  IF rel \notin DOMAIN tree THEN <<Error("Missing file", rel)>>
             ELSE IF sha256(tree[rel].data) # expected
                  THEN <<Error("Hash mismatch", rel)>>
                  ELSE <<>>

\* verify_manifest_dir's loop leaving at the first bad row
RECURSIVE dir_errors_first_only(_, _, _)
dir_errors_first_only(tree, rows, i) ==
    IF i > Len(rows) THEN <<>>
    ELSE IF check_row_dir(tree, rows[i]) # <<>> THEN check_row_dir(tree, rows[i])
    ELSE dir_errors_first_only(tree, rows, i + 1)

\* The errors of rows[i..], in order
RECURSIVE dir_errors(_, _, _)
dir_errors(tree, rows, i) ==
    IF i > Len(rows) THEN <<>>
    ELSE check_row_dir(tree, rows[i]) \o dir_errors(tree, rows, i + 1)

\* verify_manifest_dir(source_dir); a manifest that is no dict has no get
verify_manifest_dir(tree) ==
    LET m == read_manifest(tree)
    IN  IF m.raised \/ ~isinstance_dict(m.val) THEN VerifyRaised
        ELSE LET files == Get(m.val, "files", PyList(<<>>))
             IN  IF files.t # "list"
                 THEN Verdict(<<Error("Invalid manifest: files must be a list", "")>>)
                 ELSE Verdict(dir_errors(tree, files.v, 1))

\* The entry z.open(rel) / z.read(rel) finds: the last of that name
HasEntry(entries, rel) == \E i \in DOMAIN entries : entries[i].name = rel
EntryData(entries, rel) ==
    entries[CHOOSE i \in DOMAIN entries :
               /\ entries[i].name = rel
               /\ \A j \in DOMAIN entries : entries[j].name = rel => j <= i].data

\* One row of verify_manifest_zip's loop: the errors it appends
check_row_zip(entries, row) ==
    IF ~isinstance_dict(row) THEN <<Error("Invalid manifest row", "")>>
    ELSE LET rel == py_str(Get(row, "path", PyStr("")))
             expected == py_str(Get(row, "sha256", PyStr("")))
         IN  IF ~HasEntry(entries, rel) THEN <<Error("Missing file in zip", rel)>>
             ELSE IF sha256(EntryData(entries, rel)) # expected
                  THEN <<Error("Hash mismatch in zip", rel)>>
                  ELSE <<>>

RECURSIVE zip_errors(_, _, _)
zip_errors(entries, rows, i) ==
    IF i > Len(rows) THEN <<>>
    ELSE check_row_zip(entries, rows[i]) \o zip_errors(entries, rows, i + 1)

\* verify_manifest_zip(zip_path); a file that is no zip archive raises
verify_manifest_zip(z) ==
    IF z.t # "zip" THEN VerifyRaised
    ELSE IF ~HasEntry(z.v, MANIFEST_FILE_NAME)
         THEN Verdict(<<Error("Missing manifest in zip", MANIFEST_FILE_NAME)>>)
         ELSE LET m == parse_json(EntryData(z.v, MANIFEST_FILE_NAME))
              IN  IF m.raised \/ ~isinstance_dict(m.val) THEN VerifyRaised
                  ELSE LET files == Get(m.val, "files", PyList(<<>>))
                       IN  IF files.t # "list"
                           THEN Verdict(<<Error("Invalid manifest: files must be a list", "")>>)
                           ELSE Verdict(zip_errors(z.v, files.v, 1))

\* The entries zip_dir writes for listed[i..]; the archive itself, when it
\* lies in the directory, is read as written so far
RECURSIVE zip_entries(_, _, _, _, _)
zip_entries(tree, listed, i, self, sofar) ==
    IF i > Len(listed) THEN sofar
    ELSE LET q == listed[i]
             e == [name |-> q,
                   data |-> IF q = self THEN Partial(sofar) ELSE tree[q].data,
                   mtime |-> tree[q].mtime]
         IN  zip_entries(tree, listed, i + 1, self, Append(sofar, e))

\* zip_dir(source_dir, zip_path) at time ts: the archive.  self is the
\* archive's path in the directory, or "" when it is written elsewhere; the
\* archive is created before the directory is listed.
zip_dir(tree, self, ts) ==
    LET seen == IF self = "" THEN tree ELSE WriteFile(tree, self, Partial(<<>>), ts)
    IN  Zip(zip_entries(seen, sorted_files(seen), 1, self, <<>>))

-----------------------------------------------------------------------------
VARIABLES
    sFile,      \* SpecStore: the content of the runtime file
    sState,     \* SpecStore: the mapping handed to save_runtime
    sLoaded,    \* SpecStore: what the last load_runtime returned
    sPc,        \* SpecStore: "start", "saved", "loaded", "reloaded"
    aStart,     \* SpecAlloc: allocate_port's start
    aEnd,       \* SpecAlloc: allocate_port's end
    aUsed,      \* SpecAlloc: allocate_port's used
    aBusy,      \* SpecAlloc: the ports a listener holds
    aResult,    \* SpecAlloc: what allocate_port returned or raised
    aPc,        \* SpecAlloc: "ready", "done", "again"
    aBusy2,     \* SpecAlloc: the ports a listener holds at the second call
    aAgain,     \* SpecAlloc: what the second allocate_port returned or raised
    file,       \* Spec: the content of the runtime file
    dirs,       \* Spec: the apps whose working directory exists
    foreign,    \* Spec: the ports other processes listen on
    procs,      \* Spec: the children launched, by pid: app, port, alive, listening
    sigs,       \* Spec: the pids os.kill was called on
    pc,         \* Spec: "idle", "run", "stop": the command in progress
    cmds,       \* Spec: the number of commands started
    todo,       \* Spec: the apps (run) or names (stop) the loop has left
    used,       \* Spec: apps run's set of claimed ports
    all_rt,     \* Spec: apps stop's all_rt, the "apps" mapping it loaded
    ev,         \* Spec: what the last step of a command did
    hist,       \* Spec: the last apps run batch: targets, launches, failures
    exit,       \* Spec: how the last command ended: "none", "ok", "error"
    now,        \* Spec: the clock, read for started_at and stopped_at
    out,        \* Spec: what the last status, list, hub, snapshot, sync or up did
    tree,       \* SpecPack: the directory that is packed
    zipOut,     \* SpecPack: the archive pack wrote outside the directory
    packs,      \* SpecPack: the number of pack commands run
    pRes,       \* SpecPack: what the last pack's own verification returned
    prevZip,    \* SpecPack: the archive of the pack before the last
    lastZip,    \* SpecPack: the archive of the last pack
    pSame,      \* SpecPack: the last two packs saw the same directory
    tampered,   \* SpecPack: the file changed since the last pack
    vRes,       \* SpecPack: what the last verify-artifact returned
    pNow,       \* SpecPack: the clock
    apSrc,      \* SpecAppsPack: the app's directory in the workspace
    include_build_output, \* SpecAppsPack: apps pack's flag
    apZip,      \* SpecAppsPack: the archive apps pack wrote
    rFile,      \* SpecRace: the content of the runtime file
    rInv,       \* SpecRace: per invocation: its mutation, its position, what it loaded
    rSaves      \* SpecRace: the invocations in the order of their saves

storeVars == <<sFile, sState, sLoaded, sPc>>
allocVars == <<aStart, aEnd, aUsed, aBusy, aResult, aPc, aBusy2, aAgain>>
orchVars == <<file, dirs, foreign, procs, sigs, pc, cmds, todo, used, all_rt,
              ev, hist, exit, now, out>>
packVars == <<tree, zipOut, packs, pRes, prevZip, lastZip, pSame, tampered,
              vRes, pNow>>
appsPackVars == <<apSrc, include_build_output, apZip>>
raceVars == <<rFile, rInv, rSaves>>
vars == <<storeVars, allocVars, orchVars, packVars, appsPackVars, raceVars>>

StoreIdle ==
    /\ sFile = NoFile
    /\ sState = EmptyRuntime
    /\ sLoaded = Return(PyNone)
    /\ sPc = "idle"

NoEvent == [op |-> "none", app |-> "", pid |-> 0, port |-> 0, sig |-> "none"]
NoBatch == [targets |-> <<>>, launched |-> <<>>, failed |-> {}]
NoOut == [cmd |-> "none", raised |-> FALSE, probed |-> {}, answers |-> <<>>,
          health |-> <<>>, launched |-> <<>>, failed |-> {}]

OrchIdle ==
    /\ file = NoFile
    /\ dirs = {}
    /\ foreign = {}
    /\ procs = <<>>
    /\ sigs = {}
    /\ pc = "off"
    /\ cmds = 0
    /\ todo = <<>>
    /\ used = {}
    /\ all_rt = EmptyDict
    /\ ev = NoEvent
    /\ hist = NoBatch
    /\ exit = "none"
    /\ now = 0
    /\ out = NoOut

NoTamper == [where |-> "none", path |-> "", listed |-> FALSE]
NoVerify == [target |-> "none", res |-> Verdict(<<>>)]
EmptyTree == [q \in {} |-> File(Bytes(0), 0)]

PackIdle ==
    /\ tree = EmptyTree
    /\ zipOut = NoZip
    /\ packs = 0
    /\ pRes = Verdict(<<>>)
    /\ prevZip = NoZip
    /\ lastZip = NoZip
    /\ pSame = FALSE
    /\ tampered = NoTamper
    /\ vRes = NoVerify
    /\ pNow = 0

AllocIdle ==
    /\ aStart = 0
    /\ aEnd = 0
    /\ aUsed = NoneUsed
    /\ aBusy = {}
    /\ aResult = NoFreePort
    /\ aPc = "idle"
    /\ aBusy2 = {}
    /\ aAgain = NoFreePort

AppsPackIdle ==
    /\ apSrc = EmptyTree
    /\ include_build_output = FALSE
    /\ apZip = NoZip

RaceIdle ==
    /\ rFile = NoFile
    /\ rInv = <<>>
    /\ rSaves = <<>>

-----------------------------------------------------------------------------
(* SpecStore: one save_runtime and one load_runtime on one path.           *)

\* Records of the kind apps run and apps stop write, and two that hold a
\* list and a tuple.
RecordSamples ==
    { PyDict([k \in {"pid", "running"} |->
                 IF k = "pid" THEN PyInt(41) ELSE PyBool(TRUE)]),
      PyDict([k \in {"running", "stopped_at"} |->
                 IF k = "running" THEN PyBool(FALSE) ELSE PyStr("T1")]),
      EmptyDict,
      PyDict([k \in {"pid", "tags"} |->
                 IF k = "pid" THEN PyInt(41) ELSE PyList(<<PyInt(1)>>)]),
      PyDict([k \in {"pid", "tags"} |->
                 IF k = "pid" THEN PyInt(41) ELSE PyTuple(<<PyInt(1)>>)]),
      PyNone }

StoreNames == {"a", "b"}

AppsSamples ==
    { PyDict(f) : f \in UNION { [S -> RecordSamples] : S \in SUBSET StoreNames } }

\* State mappings: with and without the "apps" key, with and without
\* another top-level key.
StateSamples ==
    { PyDict([k \in {"apps"} |-> a]) : a \in AppsSamples }
    \cup { PyDict([k \in {"apps", "version"} |->
                      IF k = "apps" THEN a ELSE PyInt(1)]) : a \in AppsSamples }
    \cup { EmptyDict,
           PyDict([k \in {"version"} |-> PyInt(1)]),
           PyDict([k \in {"apps"} |-> PyNone]) }

FileSamples ==
    { NoFile, Garbage,
      TextOf(JNull), TextOf(JNumber(3)), TextOf(JArray(<<JNumber(1)>>)),
      TextOf(JObject([k \in {} |-> JNull])),
      TextOf(JObject([k \in {"apps"} |->
                 JObject([n \in {"a"} |->
                     JObject([q \in {"pid"} |-> JNumber(41)])])])) }

StoreInit ==
    /\ sFile \in FileSamples
    /\ sState \in StateSamples
    /\ sLoaded = Return(PyNone)
    /\ sPc = "start"
    /\ AllocIdle
    /\ OrchIdle
    /\ PackIdle
    /\ AppsPackIdle
    /\ RaceIdle

\* save_runtime(path, state)
StoreSave ==
    /\ sPc = "start"
    /\ sFile' = save_runtime(sState)
    /\ sPc' = "saved"
    /\ UNCHANGED <<sState, sLoaded, allocVars, orchVars, packVars,
                   appsPackVars, raceVars>>

\* load_runtime(path) on the file as found
StoreLoad ==
    /\ sPc = "start"
    /\ sLoaded' = load_runtime(sFile)
    /\ sPc' = "loaded"
    /\ UNCHANGED <<sFile, sState, allocVars, orchVars, packVars,
                   appsPackVars, raceVars>>

\* load_runtime(path) right after save_runtime(path, state)
StoreReload ==
    /\ sPc = "saved"
    /\ sLoaded' = load_runtime(sFile)
    /\ sPc' = "reloaded"
    /\ UNCHANGED <<sFile, sState, allocVars, orchVars, packVars,
                   appsPackVars, raceVars>>

StoreNext == StoreSave \/ StoreLoad \/ StoreReload

SpecStore == StoreInit /\ [][StoreNext]_vars

\* No tuple anywhere in x: json.loads gives back the value json.dumps took
RECURSIVE JsonNative(_)
JsonNative(x) ==
    CASE x.t = "tuple" -> FALSE
      [] x.t = "list" -> \A i \in DOMAIN x.v : JsonNative(x.v[i])
      [] x.t = "dict" -> \A k \in DOMAIN x.v : JsonNative(x.v[k])
      [] OTHER -> TRUE

\* C6 as stated: save_runtime(path, state) then load_runtime(path) returns
\* a mapping equal to state, for every state mapping.
C6_RoundTripEveryState ==
    sPc = "reloaded" => sLoaded = Return(sState)

\* C6 amended: for every state mapping that has an "apps" key and is built
\* from string-keyed dicts, lists, strings, ints, bools and None,
\* save_runtime then load_runtime returns a mapping equal to state.
C6_RoundTrip ==
    (sPc = "reloaded" /\ "apps" \in DOMAIN sState.v /\ JsonNative(sState))
        => sLoaded = Return(sState)

C6_Witness ==
    /\ sPc = "reloaded"
    /\ JsonNative(sState)
    /\ "apps" \in DOMAIN sState.v
    /\ sState.v["apps"].t = "dict"
    /\ "a" \in DOMAIN sState.v["apps"].v
    /\ sState.v["apps"].v["a"].t = "dict"
    /\ "pid" \in DOMAIN sState.v["apps"].v["a"].v
    /\ sLoaded = Return(sState)

\* C7: load_runtime on a missing or corrupt file (bytes that do not parse,
\* or a document that is not an object) returns {"apps": {}} and does not
\* raise.
C7_LoadMissingOrCorrupt ==
    (sPc = "loaded" /\ (~sFile.exists \/ ~sFile.parses \/ sFile.doc.t # "object"))
        => sLoaded = Return(EmptyRuntime)

C7_Witness ==
    /\ sPc = "loaded"
    /\ sFile.exists
    /\ ~sFile.parses
    /\ sLoaded = Return(EmptyRuntime)

-----------------------------------------------------------------------------
(* SpecAlloc: one call of allocate_port.  The operating system may take or *)
(* release a port before the call.                                         *)

AllocInit ==
    /\ aStart \in Ports
    /\ aEnd \in Ports
    /\ aUsed \in {NoneUsed} \cup { UsedSet(S) : S \in SUBSET Ports }
    /\ aBusy \in SUBSET Ports
    /\ aResult = NoFreePort
    /\ aPc = "ready"
    /\ aBusy2 = {}
    /\ aAgain = NoFreePort
    /\ StoreIdle
    /\ OrchIdle
    /\ PackIdle
    /\ AppsPackIdle
    /\ RaceIdle

\* Another process starts or stops listening on port p
AllocEnvToggle(p) ==
    /\ aPc = "ready"
    /\ aBusy' = IF p \in aBusy THEN aBusy \ {p} ELSE aBusy \cup {p}
    /\ UNCHANGED <<aStart, aEnd, aUsed, aResult, aPc, aBusy2, aAgain, storeVars, orchVars, packVars,
                   appsPackVars, raceVars>>

\* allocate_port(start, end, used)
AllocCall ==
    /\ aPc = "ready"
    /\ aResult' = allocate_port(aStart, aEnd, aUsed, aBusy)
    /\ aPc' = "done"
    /\ UNCHANGED <<aStart, aEnd, aUsed, aBusy, aBusy2, aAgain, storeVars, orchVars, packVars,
                   appsPackVars, raceVars>>

\* allocate_port(start, end, used) once more, the listeners then being B
AllocAgain(B) ==
    /\ aPc = "done"
    /\ aBusy2' = B
    /\ aAgain' = allocate_port(aStart, aEnd, aUsed, B)
    /\ aPc' = "again"
    /\ UNCHANGED <<aStart, aEnd, aUsed, aBusy, aResult, storeVars, orchVars, packVars,
                   appsPackVars, raceVars>>

AllocNext ==
    \/ AllocCall
    \/ \E p \in Ports : AllocEnvToggle(p)
    \/ \E B \in SUBSET Ports : AllocAgain(B)

SpecAlloc == AllocInit /\ [][AllocNext]_vars

\* The ports of [start, end] that are not excluded and bindable at the call
Candidates == { p \in aStart .. aEnd : p \notin aUsed.ports /\ p \notin aBusy }

\* C1: allocate_port(start, end, used) returns a port p with
\* start <= p <= end, p not in used and p bindable at the call, or raises
\* the exhaustion error; it raises exactly when no port of the range is
\* both non-excluded and bindable, which is so whenever start > end.
C1_AllocatePort ==
    aPc = "done" =>
        /\ aResult.raised <=> Candidates = {}
        /\ ~aResult.raised => aResult.port \in Candidates
        /\ aStart > aEnd => aResult.raised

C1_Witness ==
    /\ aPc = "done"
    /\ ~aResult.raised
    /\ aResult.port > aStart
    /\ aUsed.ports # {}
    /\ aBusy \cap (aStart .. aEnd) # {}

\* C13: when allocate_port returns p, every port q with start <= q < p is
\* in used or was not bindable at the call; and a second call with the same
\* range, the same used and the same bindable ports returns the same port
\* (or raises as the first did).
C13_LowestFreePort ==
    /\ (aPc \in {"done", "again"} /\ ~aResult.raised) =>
           \A q \in aStart .. (aResult.port - 1) : q \in aUsed.ports \/ q \in aBusy
    /\ (aPc = "again" /\ ~aAgain.raised) =>
           \A q \in aStart .. (aAgain.port - 1) : q \in aUsed.ports \/ q \in aBusy2
    /\ (aPc = "again" /\ aBusy2 = aBusy) => aAgain = aResult

C13_Witness ==
    /\ aPc = "again"
    /\ aBusy2 = aBusy
    /\ ~aResult.raised
    /\ aAgain = aResult
    /\ aResult.port = aStart + 2
    /\ aStart \in aUsed.ports
    /\ (aStart + 1) \in aBusy

-----------------------------------------------------------------------------
(* Spec: the orchestrator.  One CLI invocation runs at a time; apps run    *)
(* and apps stop take one step per app of their loop, and between steps    *)
(* the operating system acts: a child starts to listen on its port, a      *)
(* process exits.  The ports other processes hold are fixed at the start.  *)

MaxCmds == 2
MaxProcs == 3

\* Runtime files left by earlier sessions: none, a record without a pid (as
\* in tests/test_runtime.py), a record with pid 0, a record of a process of
\* an earlier session
OldRecord(S) ==
    PyDict([k \in S |->
        CASE k = "pid" -> PyInt(41)
          [] k = "port" -> PyInt(9000)
          [] k = "running" -> PyBool(TRUE)])

OrchFileSamples ==
    { NoFile,
      save_runtime(PyDict([k \in {"apps"} |->
          PyDict([n \in {"a"} |-> OldRecord({"running"})])])),
      save_runtime(PyDict([k \in {"apps"} |->
          PyDict([n \in {"a"} |-> SetItem(OldRecord({"running"}), "pid", PyInt(0))])])),
      save_runtime(PyDict([k \in {"apps"} |->
          PyDict([n \in {"b"} |-> OldRecord({"pid", "port", "running"})])])) }

\* Every working directory present, or one of them missing
DirSamples == {AppNames, AppNames \ {"a"}, AppNames \ {"b"}}

\* The ports held by other processes: none, the lowest, the lowest two, or
\* the second
ForeignSamples == {{}, {9000}, {9000, 9001}, {9001}}

Init ==
    /\ file \in OrchFileSamples
    /\ dirs \in DirSamples
    /\ foreign \in ForeignSamples
    /\ procs = <<>>
    /\ sigs = {}
    /\ pc = "idle"
    /\ cmds = 0
    /\ todo = <<>>
    /\ used = {}
    /\ all_rt = EmptyDict
    /\ ev = NoEvent
    /\ hist = NoBatch
    /\ exit = "none"
    /\ now = 0
    /\ out = NoOut
    /\ StoreIdle
    /\ AllocIdle
    /\ PackIdle
    /\ AppsPackIdle
    /\ RaceIdle

Alive == { i \in DOMAIN procs : procs[i].alive }

\* The ports a bind fails on
Busy == foreign \cup { procs[i].port : i \in { j \in Alive : procs[j].listening } }

\* The "apps" mapping of the runtime file, as load_runtime gives it
FileApps == load_runtime(file).val.v["apps"]

\* ---- the operating system

\* A launched child binds the port it was given
ChildListens(i) ==
    /\ i \in Alive
    /\ ~procs[i].listening
    /\ procs[i].port \notin Busy
    /\ procs' = [procs EXCEPT ![i].listening = TRUE]
    /\ UNCHANGED <<file, dirs, foreign, sigs, pc, cmds, todo, used, all_rt, ev,
                   hist, exit, now, out, storeVars, allocVars, packVars,
                   appsPackVars, raceVars>>

\* A child exits: on the signal, on its own, or killed from outside
ProcExits(i) ==
    /\ i \in Alive
    /\ procs' = [procs EXCEPT ![i].alive = FALSE, ![i].listening = FALSE]
    /\ UNCHANGED <<file, dirs, foreign, sigs, pc, cmds, todo, used, all_rt, ev,
                   hist, exit, now, out, storeVars, allocVars, packVars,
                   appsPackVars, raceVars>>

\* ---- apps run

\* apps_run up to its loop; an unknown name is BadParameter
RunBegin(sel) ==
    /\ pc = "idle"
    /\ cmds < MaxCmds
    /\ cmds' = cmds + 1
    /\ LET r == select_apps(sel)
       IN  IF r.raised
           THEN /\ pc' = "idle"
                /\ exit' = "error"
                /\ todo' = <<>>
                /\ ev' = [NoEvent EXCEPT !.op = "rejected", !.app = sel]
                /\ hist' = NoBatch
           ELSE /\ pc' = "run"
                /\ exit' = "none"
                /\ todo' = r.apps
                /\ ev' = [NoEvent EXCEPT !.op = "begin-run", !.app = sel]
                /\ hist' = [NoBatch EXCEPT
                              !.targets = [i \in DOMAIN r.apps |-> r.apps[i].name]]
    /\ used' = {}
    /\ out' = NoOut
    /\ UNCHANGED <<file, dirs, foreign, procs, sigs, all_rt, now,
                   storeVars, allocVars, packVars,
                   appsPackVars, raceVars>>

\* apps_run that goes on to launch an app whose directory is missing
Eligible_cmd_only(n) == app_by_name(n).start_cmd # ""

\* The apps of the batch that apps run does not skip
Eligible(n) == n \in dirs /\ app_by_name(n).start_cmd # ""

\* The loop goes on to the next app, or the command ends
Continue(rest) ==
    /\ todo' = rest
    /\ pc' = IF rest = <<>> THEN "idle" ELSE pc
    /\ exit' = IF rest = <<>> THEN "ok" ELSE exit

\* An exception leaves the loop and the command
Abort(rest) ==
    /\ todo' = rest
    /\ pc' = "idle"
    /\ exit' = "error"

\* One pass of apps_run's loop, for the app a
RunStep ==
    /\ pc = "run"
    /\ todo # <<>>
    /\ LET a == Head(todo)
           rest == Tail(todo)
       IN  IF ~Eligible(a.name)
           THEN /\ ev' = [NoEvent EXCEPT !.op = "skip", !.app = a.name]
                /\ Continue(rest)
                /\ UNCHANGED <<file, procs, used, hist, now>>
           ELSE LET r == allocate_port(a.default_port, a.port_max, UsedSet(used), Busy)
                IN  IF r.raised
                    THEN /\ ev' = [NoEvent EXCEPT !.op = "noport", !.app = a.name]
                         /\ hist' = [hist EXCEPT !.failed = @ \cup {a.name}]
                         /\ Abort(rest)
                         /\ UNCHANGED <<file, procs, used, now>>
                    ELSE /\ used' = claim_port(used, r.port)
                         /\ \E spawned \in BOOLEAN :
                              IF ~spawned
                              THEN /\ ev' = [NoEvent EXCEPT !.op = "nospawn",
                                                !.app = a.name, !.port = r.port]
                                   /\ hist' = [hist EXCEPT !.failed = @ \cup {a.name}]
                                   /\ Abort(rest)
                                   /\ UNCHANGED <<file, procs, now>>
                              ELSE LET pid == Len(procs) + 1
                                       w == update_runtime_running(file, a.name,
                                               Payload(pid, r.port, a.name, now))
                                   IN  /\ Len(procs) < MaxProcs
                                       /\ procs' = Append(procs,
                                             [app |-> a.name, port |-> r.port,
                                              alive |-> TRUE, listening |-> FALSE])
                                       /\ now' = now + 1
                                       /\ file' = w.file
                                       /\ ev' = [NoEvent EXCEPT !.op = "launch",
                                                   !.app = a.name, !.pid = pid,
                                                   !.port = r.port]
                                       /\ hist' = [hist EXCEPT !.launched =
                                                     Append(@, [app |-> a.name, port |-> r.port])]
                                       /\ IF w.raised THEN Abort(rest) ELSE Continue(rest)
    /\ UNCHANGED <<dirs, foreign, sigs, cmds, all_rt, out, storeVars, allocVars, packVars,
                   appsPackVars, raceVars>>

\* ---- apps stop

\* The orders in which a dict's keys may come
Orders(S) == { q \in [1 .. Cardinality(S) -> S] : \A x \in S : \E i \in DOMAIN q : q[i] = x }

\* apps_stop up to its loop; no target is BadParameter
StopBegin(sel) ==
    /\ pc = "idle"
    /\ cmds < MaxCmds
    /\ cmds' = cmds + 1
    /\ LET rt == load_runtime(file).val
           apps == Get(rt, "apps", EmptyDict)
           loaded == IF isinstance_dict(apps) THEN apps ELSE EmptyDict
       IN  /\ all_rt' = loaded
           /\ \E targets \in (IF sel = All THEN Orders(DOMAIN loaded.v) ELSE {<<sel>>}) :
                IF targets = <<>>
                THEN /\ pc' = "idle"
                     /\ exit' = "error"
                     /\ todo' = <<>>
                     /\ ev' = [NoEvent EXCEPT !.op = "rejected", !.app = sel]
                ELSE /\ pc' = "stop"
                     /\ exit' = "none"
                     /\ todo' = targets
                     /\ ev' = [NoEvent EXCEPT !.op = "begin-stop", !.app = sel]
    /\ out' = NoOut
    /\ UNCHANGED <<file, dirs, foreign, procs, sigs, used, hist, now,
                   storeVars, allocVars, packVars,
                   appsPackVars, raceVars>>

\* What os.kill(pid, SIGTERM) may do: deliver the signal, or fail because
\* there is no such process or because the process is another user's
KillOutcomes(pid) ==
    IF pid \in Alive THEN {"delivered"} ELSE {"delivered", "esrch", "eperm"}

\* One pass of apps_stop's loop, for the name n
StopStep ==
    /\ pc = "stop"
    /\ todo # <<>>
    /\ LET n == Head(todo)
           rest == Tail(todo)
           p == recorded_pid(all_rt, n)
           m == mark_stopped(file, n, now)
       IN  IF p.raised
           THEN /\ ev' = [NoEvent EXCEPT !.op = "badpid", !.app = n]
                /\ Abort(rest)
                /\ UNCHANGED <<file, sigs, now>>
           ELSE \E outcome \in (IF should_signal(p.n) THEN KillOutcomes(p.n) ELSE {"none"}) :
                  /\ sigs' = IF outcome = "none" THEN sigs ELSE sigs \cup {p.n}
                  /\ IF outcome # "none" /\ ~kill_swallowed(outcome)
                     THEN /\ ev' = [NoEvent EXCEPT !.op = "killraised", !.app = n,
                                       !.pid = p.n, !.sig = outcome]
                          /\ Abort(rest)
                          /\ UNCHANGED <<file, now>>
                     ELSE /\ ev' = [NoEvent EXCEPT !.op = "stop", !.app = n,
                                       !.pid = p.n, !.sig = outcome]
                          /\ file' = m.file
                          /\ now' = now + 1
                          /\ IF m.raised THEN Abort(rest) ELSE Continue(rest)
    /\ UNCHANGED <<dirs, foreign, procs, cmds, used, all_rt, hist, out,
                   storeVars, allocVars, packVars,
                   appsPackVars, raceVars>>

Selections == AppNames \cup {All, Ghost}

Next ==
    \/ \E sel \in Selections : RunBegin(sel)
    \/ RunStep
    \/ \E sel \in Selections : StopBegin(sel)
    \/ StopStep
    \/ \E i \in DOMAIN procs : ChildListens(i)
    \/ \E i \in DOMAIN procs : ProcExits(i)

Spec == Init /\ [][Next]_vars

\* The record of app n in the runtime file is marked stopped
MarkedStopped(n) ==
    LET info == Get(FileApps, n, PyNone)
    IN  /\ isinstance_dict(info)
        /\ "running" \in DOMAIN info.v
        /\ info.v["running"] = PyBool(FALSE)
        /\ "stopped_at" \in DOMAIN info.v

\* C2: the ports given to the apps launched by one apps run batch are
\* pairwise distinct, also when the apps' ranges overlap or are the same,
\* and each launched app's record holds the port it was given.
C2_BatchPortsDistinct ==
    /\ \A i, j \in DOMAIN hist.launched :
          i # j => hist.launched[i].port # hist.launched[j].port
    /\ pc = "run" =>
          \A i \in DOMAIN hist.launched :
             /\ hist.launched[i].port \in used
             /\ Get(Get(FileApps, hist.launched[i].app, EmptyDict), "port", PyNone)
                    = PyInt(hist.launched[i].port)

C2_Witness ==
    /\ Len(hist.launched) >= 2
    /\ hist.launched[1].app = "a"
    /\ hist.launched[2].app = "b"
    /\ ~procs[1].listening
    /\ hist.launched[1].port # hist.launched[2].port

\* C3: when an app of an apps run batch fails to start (no free port, or
\* the spawn fails), every later app of the batch whose directory exists and
\* whose start command is not empty is still taken up: it is launched, or
\* fails to start itself.
C3_BatchSurvivesFailure ==
    (pc = "idle" /\ hist.targets # <<>>) =>
        \A i, j \in DOMAIN hist.targets :
            (i < j /\ hist.targets[i] \in hist.failed /\ Eligible(hist.targets[j]))
                => \/ hist.targets[j] \in hist.failed
                   \/ \E k \in DOMAIN hist.launched :
                         hist.launched[k].app = hist.targets[j]

\* C4: a pass of apps stop over a record with a positive pid calls os.kill
\* on that pid and then marks the record running=false with stopped_at,
\* whatever os.kill did: the errors are swallowed and the loop goes on.
C4_StopMarksWhateverTheSignal ==
    (ev.op \in {"stop", "killraised"} /\ ev.pid > 0) =>
        /\ ev.op = "stop"
        /\ ev.sig \in {"delivered", "esrch", "eperm"}
        /\ ev.pid \in sigs
        /\ MarkedStopped(ev.app)
        /\ exit # "error"
        /\ todo # <<>> => pc = "stop"

C4_Witness ==
    /\ ev.op = "stop"
    /\ ev.pid > 0
    /\ ev.sig = "eperm"
    /\ MarkedStopped(ev.app)
    /\ pc = "stop"
    /\ todo # <<>>

\* C5 as stated: a pass of apps stop over a name with no recorded pid (pid
\* absent or 0, or no record of that name) marks the app running=false in
\* the runtime store and attempts no signal.
C5_NoPidMarkedStopped ==
    (ev.op \in {"stop", "killraised"} /\ ev.pid = 0) =>
        /\ ev.sig = "none"
        /\ MarkedStopped(ev.app)

\* C5 amended: a pass of apps stop over a record with no pid (absent or 0)
\* attempts no signal and marks that record running=false with stopped_at;
\* over a name with no record it attempts no signal either and creates no
\* record for the name.
C5_NoPidNoSignal ==
    (ev.op \in {"stop", "killraised"} /\ ev.pid = 0) =>
        /\ ev.op = "stop"
        /\ ev.sig = "none"
        /\ ev.app \in DOMAIN all_rt.v => MarkedStopped(ev.app)
        /\ ev.app \notin DOMAIN all_rt.v => ev.app \notin DOMAIN FileApps.v

C5_Witness ==
    /\ ev.op = "stop"
    /\ ev.pid = 0
    /\ ev.sig = "none"
    /\ ev.app \in DOMAIN all_rt.v
    /\ "pid" \notin DOMAIN all_rt.v[ev.app].v
    /\ MarkedStopped(ev.app)

-----------------------------------------------------------------------------
(* SpecPack: pack and verify-artifact on one directory.  After the packs   *)
(* one file of the directory, or one entry of the archive, may be given    *)
(* other bytes.                                                            *)

MaxPacks == 2
MaxBytes == 2

UserPaths == {"a.txt", "src/main.py"}

\* Non-empty trees of user files, with or without a file already lying
\* where pack --zip will write inside the directory
TreeSamples ==
    { [q \in DOMAIN f |-> File(Bytes(f[q]), 0)] :
        f \in UNION { [S -> 1 .. MaxBytes] :
                        S \in { T \cup Z : T \in (SUBSET UserPaths) \ {{}},
                                           Z \in {{}, {ZipInside}} } } }

PackInit ==
    /\ tree \in TreeSamples
    /\ zipOut = NoZip
    /\ packs = 0
    /\ pRes = Verdict(<<>>)
    /\ prevZip = NoZip
    /\ lastZip = NoZip
    /\ pSame = FALSE
    /\ tampered = NoTamper
    /\ vRes = NoVerify
    /\ pNow = 1
    /\ StoreIdle
    /\ AllocIdle
    /\ OrchIdle
    /\ AppsPackIdle
    /\ RaceIdle

\* The paths the manifest in the directory lists
ListedPaths(t) ==
    LET m == read_manifest(t)
    IN  IF m.raised THEN {}
        ELSE { py_str(Get(m.val.v["files"].v[i], "path", PyStr(""))) :
                  i \in DOMAIN m.val.v["files"].v }

\* pack --in dir --zip where: build_manifest, write_manifest, zip_dir,
\* verify_manifest_dir.  where is "" for an archive outside the directory.
Pack(where) ==
    /\ packs < MaxPacks
    /\ tampered = NoTamper
    /\ LET m == build_manifest(tree, "proj", "python", "", pNow)
           t1 == write_manifest(tree, m, pNow)
           z == zip_dir(t1, where, pNow)
           t2 == IF where = "" THEN t1 ELSE WriteFile(t1, where, z, pNow)
       IN  /\ tree' = t2
           /\ zipOut' = IF where = "" THEN z ELSE zipOut
           /\ pRes' = verify_manifest_dir(t2)
           /\ prevZip' = lastZip
           /\ lastZip' = z
           /\ pSame' = (packs > 0 /\ where = "" /\ ZipInside \notin DOMAIN tree)
    /\ packs' = packs + 1
    /\ pNow' = pNow + 1
    /\ vRes' = NoVerify
    /\ UNCHANGED tampered
    /\ UNCHANGED <<storeVars, allocVars, orchVars,
                   appsPackVars, raceVars>>

\* The content of file q of the packed directory is changed to other bytes
TamperDir(q, n) ==
    /\ packs > 0
    /\ tampered = NoTamper
    /\ q \in DOMAIN tree
    /\ q # MANIFEST_FILE_NAME
    /\ tree[q].data # Bytes(n)
    /\ tree' = WriteFile(tree, q, Bytes(n), pNow)
    /\ tampered' = [where |-> "dir", path |-> q, listed |-> q \in ListedPaths(tree)]
    /\ vRes' = NoVerify
    /\ UNCHANGED <<zipOut, packs, pRes, prevZip, lastZip, pSame, pNow,
                   storeVars, allocVars, orchVars,
                   appsPackVars, raceVars>>

\* The archive's manifest lists these paths
ListedInZip(z) ==
    IF z.t # "zip" \/ ~HasEntry(z.v, MANIFEST_FILE_NAME) THEN {}
    ELSE LET m == parse_json(EntryData(z.v, MANIFEST_FILE_NAME))
         IN  IF m.raised THEN {}
             ELSE { py_str(Get(m.val.v["files"].v[i], "path", PyStr(""))) :
                       i \in DOMAIN m.val.v["files"].v }

\* The content of entry q of the archive is changed to other bytes
TamperZip(q, n) ==
    /\ zipOut.t = "zip"
    /\ tampered = NoTamper
    /\ HasEntry(zipOut.v, q)
    /\ q # MANIFEST_FILE_NAME
    /\ EntryData(zipOut.v, q) # Bytes(n)
    /\ zipOut' = Zip([i \in DOMAIN zipOut.v |->
                        IF zipOut.v[i].name = q
                        THEN [zipOut.v[i] EXCEPT !.data = Bytes(n)]
                        ELSE zipOut.v[i]])
    /\ tampered' = [where |-> "zip", path |-> q, listed |-> q \in ListedInZip(zipOut)]
    /\ vRes' = NoVerify
    /\ UNCHANGED <<tree, packs, pRes, prevZip, lastZip, pSame, pNow,
                   storeVars, allocVars, orchVars,
                   appsPackVars, raceVars>>

\* verify-artifact --in dir
VerifyDir ==
    /\ packs > 0
    /\ vRes.target # "dir"
    /\ vRes' = [target |-> "dir", res |-> verify_manifest_dir(tree)]
    /\ UNCHANGED <<tree, zipOut, packs, pRes, prevZip, lastZip, pSame, tampered,
                   pNow, storeVars, allocVars, orchVars,
                   appsPackVars, raceVars>>

\* verify-artifact --zip archive
VerifyZip ==
    /\ zipOut.t = "zip"
    /\ vRes.target # "zip"
    /\ vRes' = [target |-> "zip", res |-> verify_manifest_zip(zipOut)]
    /\ UNCHANGED <<tree, zipOut, packs, pRes, prevZip, lastZip, pSame, tampered,
                   pNow, storeVars, allocVars, orchVars,
                   appsPackVars, raceVars>>

PackNext ==
    \/ \E where \in {"", ZipInside} : Pack(where)
    \/ \E q \in Paths, n \in 1 .. MaxBytes : TamperDir(q, n)
    \/ \E q \in Paths, n \in 1 .. MaxBytes : TamperZip(q, n)
    \/ VerifyDir
    \/ VerifyZip

SpecPack == PackInit /\ [][PackNext]_vars

\* Some error of the verdict names the path
Names(res, q) == \E i \in DOMAIN res.errors : res.errors[i].path = q

\* C8: right after pack has built and written the manifest of a non-empty
\* directory and zipped it, verifying the directory against its manifest
\* succeeds, for every directory tree and every zip output path.
C8_PackThenVerifyOk ==
    packs > 0 => (~pRes.raised /\ pRes.ok /\ pRes.errors = <<>>)

\* C9: packing the same unchanged directory twice gives byte-identical
\* archives, the manifest in them included.
C9_PackTwiceSameZip ==
    (packs >= 2 /\ pSame) => lastZip = prevZip

\* C10: after a pack, changing the content of one packaged file that the
\* manifest lists and then verifying the directory (or the archive) gives
\* ok = false and an error naming that file's relative path.
C10_TamperDetected ==
    (tampered.listed /\ vRes.target = tampered.where) =>
        /\ ~vRes.res.raised
        /\ ~vRes.res.ok
        /\ Names(vRes.res, tampered.path)

-----------------------------------------------------------------------------
(* SpecVerify: verify-artifact on a directory, and on an archive of the    *)
(* same files, whose manifest is any list of rows: good rows, rows with a  *)
(* wrong digest, rows of files that are not there, rows that are no dict.  *)

MaxRows == 3

VerifyInit ==
    /\ \E S \in SUBSET UserPaths, rows \in UNION { [1 .. n -> 1 .. 6] : n \in 0 .. MaxRows } :
         \E f \in [S -> 1 .. MaxBytes], listed \in BOOLEAN :
            LET Row(k) ==
                  CASE k = 1 -> PyDict([c \in {"path", "sha256"} |->
                                   IF c = "path" THEN PyStr("a.txt") ELSE PyStr(sha256(Bytes(1)))])
                    [] k = 2 -> PyDict([c \in {"path", "sha256"} |->
                                   IF c = "path" THEN PyStr("a.txt") ELSE PyStr(sha256(Bytes(2)))])
                    [] k = 3 -> PyDict([c \in {"path", "sha256"} |->
                                   IF c = "path" THEN PyStr("src/main.py") ELSE PyStr(sha256(Bytes(1)))])
                    [] k = 4 -> PyDict([c \in {"path"} |-> PyStr("src/main.py")])
                    [] k = 5 -> PyStr("a.txt")
                    [] OTHER -> PyDict([c \in {"sha256"} |-> PyStr(sha256(Bytes(1)))])
                files == IF listed THEN PyList([i \in DOMAIN rows |-> Row(rows[i])])
                         ELSE PyDict([i \in {"a.txt"} |-> PyStr(sha256(Bytes(1)))])
                m == PyDict([c \in {"project_name", "files"} |->
                        IF c = "files" THEN files ELSE PyStr("proj")])
                t == write_manifest([q \in S |-> File(Bytes(f[q]), 0)], m, 0)
            IN  /\ tree = t
                /\ zipOut = zip_dir(t, "", 0)
    /\ packs = 0
    /\ pRes = Verdict(<<>>)
    /\ prevZip = NoZip
    /\ lastZip = NoZip
    /\ pSame = FALSE
    /\ tampered = NoTamper
    /\ vRes = NoVerify
    /\ pNow = 1
    /\ StoreIdle
    /\ AllocIdle
    /\ OrchIdle
    /\ AppsPackIdle
    /\ RaceIdle

\* verify-artifact --in dir, or --zip archive, on what it finds
Check(target) ==
    /\ vRes.target # target
    /\ vRes' = [target |-> target,
                res |-> IF target = "dir" THEN verify_manifest_dir(tree)
                        ELSE verify_manifest_zip(zipOut)]
    /\ UNCHANGED <<tree, zipOut, packs, pRes, prevZip, lastZip, pSame, tampered,
                   pNow, storeVars, allocVars, orchVars,
                   appsPackVars, raceVars>>

VerifyNext == \E target \in {"dir", "zip"} : Check(target)

SpecVerify == VerifyInit /\ [][VerifyNext]_vars

\* C11: for a manifest whose files value is a list, verify reports one
\* error for each row that is bad (no dict, its file missing, or its digest
\* different from the file's), in the order of the rows and naming the
\* row's path, and nothing for the other rows; ok is true exactly when the
\* error list is empty.
C11_AllMismatchesReported ==
    LET rows == read_manifest(tree).val.v["files"]
        rel(i) == py_str(Get(rows.v[i], "path", PyStr("")))
        Bad(i) ==
            \/ ~isinstance_dict(rows.v[i])
            \/ rel(i) \notin DOMAIN tree
            \/ sha256(tree[rel(i)].data) # py_str(Get(rows.v[i], "sha256", PyStr("")))
        bad == SelectSeq([i \in DOMAIN rows.v |-> i], Bad)
        res == vRes.res
    IN  (vRes.target # "none" /\ rows.t = "list") =>
            /\ ~res.raised
            /\ Len(res.errors) = Len(bad)
            /\ \A k \in DOMAIN bad :
                  res.errors[k].path =
                     (IF isinstance_dict(rows.v[bad[k]]) THEN rel(bad[k]) ELSE "")
            /\ res.ok <=> res.errors = <<>>

C11_Witness ==
    /\ vRes.target = "zip"
    /\ Len(vRes.res.errors) = 3
    /\ vRes.res.errors[1].kind = "Hash mismatch in zip"
    /\ vRes.res.errors[2].kind = "Invalid manifest row"
    /\ vRes.res.errors[3].kind = "Missing file in zip"
    /\ ~vRes.res.ok

-----------------------------------------------------------------------------
(* SpecAppsPack: apps pack of one app directory.                           *)

DEFAULT_EXCLUDES ==
    {".git", "node_modules", ".venv", "venv", "__pycache__", ".next", ".turbo",
     ".cache", ".pytest_cache", "dist", "build", "coverage", "*.db", "*.sqlite"}

\* rel_path.replace("\\", "/").split("/") for the paths of the model
PathParts(rel_path) ==
    CASE rel_path = ".git/config" -> <<".git", "config">>
      [] rel_path = ZipInside -> <<"build", "artifact.zip">>
      [] rel_path = "coverage/lcov.info" -> <<"coverage", "lcov.info">>
      [] rel_path = "dist/app.js" -> <<"dist", "app.js">>
      [] rel_path = "node_modules/a.js" -> <<"node_modules", "a.js">>
      [] rel_path = "src/main.py" -> <<"src", "main.py">>
      [] rel_path = "src/node_modules/b.js" -> <<"src", "node_modules", "b.js">>
      [] OTHER -> <<rel_path>>

\* name.endswith(".db") or name.endswith(".sqlite") for the names of the model
EndsWithDb(name) == name \in {"data.db"}

\* should_exclude with only the first part of the path looked at
should_exclude_top_only(rel_path, flag) ==
    LET parts == PathParts(rel_path)
    IN  \/ parts[1] \in {".git", "node_modules", ".venv", "venv", "__pycache__",
                         ".pytest_cache", ".turbo", ".cache"}
        \/ ~flag /\ parts[1] \in {"dist", "build", ".next"}
        \/ EndsWithDb(parts[Len(parts)])

\* should_exclude(rel_path, include_build_output)
should_exclude(rel_path, flag) ==
    LET parts == PathParts(rel_path)
    IN  \/ \E i \in DOMAIN parts :
              \/ parts[i] \in {".git", "node_modules", ".venv", "venv", "__pycache__",
                               ".pytest_cache", ".turbo", ".cache"}
              \/ ~flag /\ parts[i] \in {"dist", "build", ".next"}
        \/ EndsWithDb(parts[Len(parts)])

\* apps_pack(name, out, include_build_output) at time ts: the archive.  The
\* files not excluded are copied, with their times, to an empty directory,
\* which gets the manifest and is zipped to a path outside it.
apps_pack(src, flag, ts) ==
    LET kept == { q \in DOMAIN src : ~should_exclude(q, flag) }
        tmp == [q \in kept |-> src[q]]
        m == build_manifest(tmp, "app", "static", "", ts)
    IN  zip_dir(write_manifest(tmp, m, ts), "", ts)

AppsPackInit ==
    /\ apSrc \in { [q \in S |-> File(Bytes(1), 0)] :
                     S \in SUBSET (Paths \ {MANIFEST_FILE_NAME, "a.txt"}) }
    /\ include_build_output \in BOOLEAN
    /\ apZip = NoZip
    /\ StoreIdle
    /\ AllocIdle
    /\ OrchIdle
    /\ PackIdle
    /\ RaceIdle

\* apps pack NAME [--include-build-output]
AppsPack ==
    /\ apZip = NoZip
    /\ apZip' = apps_pack(apSrc, include_build_output, 1)
    /\ UNCHANGED <<apSrc, include_build_output, storeVars, allocVars, orchVars,
                   packVars, raceVars>>

SpecAppsPack == AppsPackInit /\ [][AppsPack]_vars

\* C12: apps pack without --include-build-output leaves every file that
\* lies under a node_modules, .git or dist directory, at any depth, out of
\* the archive and out of the manifest's file list, and keeps in both every
\* file no part of whose path is an excluded name.
C12_AppsPackExcludes ==
    (apZip # NoZip /\ ~include_build_output) =>
        \A q \in DOMAIN apSrc :
            LET parts == PathParts(q)
                under == \E i \in 1 .. (Len(parts) - 1) :
                            parts[i] \in {"node_modules", ".git", "dist"}
                named == \/ \E i \in DOMAIN parts : parts[i] \in DEFAULT_EXCLUDES
                         \/ EndsWithDb(parts[Len(parts)])
                packed == HasEntry(apZip.v, q) /\ EntryData(apZip.v, q) = apSrc[q].data
                listed == q \in ListedInZip(apZip)
            IN  /\ under => (~HasEntry(apZip.v, q) /\ ~listed)
                /\ ~named => (packed /\ listed)

C12_Witness ==
    /\ apZip # NoZip
    /\ ~include_build_output
    /\ {"src/node_modules/b.js", ".git/config", "dist/app.js", "src/main.py"}
          \subseteq DOMAIN apSrc
    /\ HasEntry(apZip.v, "src/main.py")
    /\ ~HasEntry(apZip.v, "src/node_modules/b.js")
    /\ ListedInZip(apZip) = {"src/main.py"}

-----------------------------------------------------------------------------
(* SpecRace: two CLI invocations, each making one mutation of the runtime  *)
(* store (update_runtime_running for apps run, mark_stopped for apps       *)
(* stop).  A mutation is a load_runtime and, later, a save_runtime; the     *)
(* steps of the two invocations interleave freely.                         *)

\* The document a mutation's save starts from, re-read under a lock
base_document_reread(loaded, current) == load_runtime(current).val

\* The document a mutation's save starts from: the one it loaded itself
base_document(loaded, current) == loaded

\* What invocation i writes at its save: rt with its own change, from the
\* document it holds (an update_runtime_running or mark_stopped on it)
RaceWrite(i, rt) ==
    IF rInv[i].op = "run"
    THEN update_runtime_running(save_runtime(rt), rInv[i].app,
                                Payload(100 + i, 9000, rInv[i].app, i)).file
    ELSE mark_stopped(save_runtime(rt), rInv[i].app, i).file

RaceInit ==
    /\ rFile \in { NoFile,
                   save_runtime(PyDict([k \in {"apps"} |->
                      PyDict([n \in {"a", "b"} |-> OldRecord({"pid", "port", "running"})])])) }
    /\ rInv \in [1 .. 2 -> { [op |-> o, app |-> n, pc |-> "start", loaded |-> EmptyRuntime,
                              saves |-> 0] : o \in {"run", "stop"}, n \in {"a", "b"} }]
    /\ rSaves = <<>>
    /\ StoreIdle
    /\ AllocIdle
    /\ OrchIdle
    /\ PackIdle
    /\ AppsPackIdle

\* rt = load_runtime(runtime_path) of invocation i
RaceLoad(i) ==
    /\ rInv[i].pc = "start"
    /\ rInv' = [rInv EXCEPT ![i].pc = "loaded",
                            ![i].loaded = load_runtime(rFile).val,
                            ![i].saves = Len(rSaves)]
    /\ UNCHANGED <<rFile, rSaves, storeVars, allocVars, orchVars, packVars, appsPackVars>>

\* save_runtime(runtime_path, rt) of invocation i
RaceSave(i) ==
    /\ rInv[i].pc = "loaded"
    /\ rFile' = RaceWrite(i, base_document(rInv[i].loaded, rFile))
    /\ rInv' = [rInv EXCEPT ![i].pc = "saved"]
    /\ rSaves' = Append(rSaves, i)
    /\ UNCHANGED <<storeVars, allocVars, orchVars, packVars, appsPackVars>>

RaceNext == \E i \in 1 .. 2 : RaceLoad(i) \/ RaceSave(i)

SpecRace == RaceInit /\ [][RaceNext]_vars

\* C18: the mutations of two invocations are not serialised.  When both have
\* saved, the file is what the last writer made of the document it had
\* loaded itself; and when the last writer loaded before the other saved and
\* the two change different apps, the other's change is not in the file: the
\* app it changed has the record, or the absence of one, that the last
\* writer had loaded.
C18_LastWriterWins ==
    Len(rSaves) = 2 =>
        LET last == rSaves[2]
            other == rSaves[1]
            had == rInv[last].loaded.v["apps"]
            final == load_runtime(rFile).val.v["apps"]
        IN  /\ rFile = RaceWrite(last, rInv[last].loaded)
            /\ (rInv[last].saves = 0 /\ rInv[other].app # rInv[last].app) =>
                  /\ rInv[other].app \in DOMAIN final.v <=> rInv[other].app \in DOMAIN had.v
                  /\ rInv[other].app \in DOMAIN final.v =>
                        final.v[rInv[other].app] = had.v[rInv[other].app]

C18_Witness ==
    /\ rSaves = <<1, 2>>
    /\ rInv[1].op = "run" /\ rInv[1].app = "a"
    /\ rInv[2].op = "run" /\ rInv[2].app = "b"
    /\ rInv[2].saves = 0
    /\ DOMAIN load_runtime(rFile).val.v["apps"].v = {"b"}

-----------------------------------------------------------------------------
(* SpecHub: the orchestrator with all its commands: apps run and apps stop *)
(* as in Spec, and apps status, apps list, hub, snapshot, apps sync, up    *)
(* and down; the runtime file found at the start may also be one that no   *)
(* hub command wrote.                                                      *)

\* bool(x), and the test of x in "if x", "x or y"
truthy(x) ==
    CASE x.t = "none" -> FALSE
      [] x.t = "bool" -> x.v
      [] x.t = "int" -> x.v # 0
      [] x.t = "str" -> x.v # ""
      [] x.t \in {"list", "tuple"} -> Len(x.v) > 0
      [] x.t = "dict" -> DOMAIN x.v # {}

\* apps_status probing every app that declares a health path
should_probe_any(a, info) == a.health_path # ""

\* apps_status: if running and a.capsule_mode == "http" and a.health_path
\* and isinstance(port, int)
should_probe(a, info) ==
    /\ truthy(Get(info, "running", PyBool(FALSE)))
    /\ a.capsule_mode = "http"
    /\ a.health_path # ""
    /\ Get(info, "port", PyStr("-")).t \in {"int", "bool"}

\* apps_status(): the rows it builds, up to the first app whose record has
\* no get.  answers[n] is what the GET on app n's health URL gives: a status
\* code, or "neterror" for any exception of httpx.
apps_status(f, answers) ==
    LET rt == load_runtime(f).val
        apps == Get(rt, "apps", EmptyDict)
        src == IF truthy(apps) THEN apps ELSE EmptyDict
        info(i) == Get(src, Registry[i].name, EmptyDict)
        Bad(i) == ~isinstance_dict(src) \/ ~isinstance_dict(info(i))
        seen == { i \in DOMAIN Registry : \A j \in 1 .. i : ~Bad(j) }
        probed == { Registry[i].name : i \in { j \in seen : should_probe(Registry[j], info(j)) } }
    IN  [raised |-> \E i \in DOMAIN Registry : Bad(i),
         probed |-> probed,
         health |-> [n \in { Registry[i].name : i \in seen } |->
                        IF n \notin probed THEN "-"
                        ELSE IF answers[n] = "neterror" THEN "down" ELSE answers[n]]]

HubInit ==
    /\ file \in OrchFileSamples \cup
                { Garbage,
                  TextOf(JObject([k \in {"apps"} |-> JNull])),
                  TextOf(JObject([k \in {"apps"} |-> JArray(<<JNumber(1)>>)])),
                  TextOf(JObject([k \in {"apps"} |-> JObject([n \in {"a"} |-> JNumber(5)])])) }
    /\ dirs \in DirSamples
    /\ foreign \in {{}, {9000}}
    /\ procs = <<>>
    /\ sigs = {}
    /\ pc = "idle"
    /\ cmds = 0
    /\ todo = <<>>
    /\ used = {}
    /\ all_rt = EmptyDict
    /\ ev = NoEvent
    /\ hist = NoBatch
    /\ exit = "none"
    /\ now = 0
    /\ out = NoOut
    /\ StoreIdle
    /\ AllocIdle
    /\ PackIdle
    /\ AppsPackIdle
    /\ RaceIdle

\* apps status
Status ==
    /\ pc = "idle"
    /\ cmds < MaxCmds
    /\ cmds' = cmds + 1
    /\ LET asked == apps_status(file, [n \in AppNames |-> "200"]).probed
       IN  \E answers \in [asked -> {"200", "503", "neterror"}] :
              LET r == apps_status(file, answers)
              IN  out' = [NoOut EXCEPT !.cmd = "status", !.raised = r.raised,
                                       !.probed = r.probed, !.answers = answers,
                                       !.health = r.health]
    /\ UNCHANGED <<file, dirs, foreign, procs, sigs, pc, todo, used, all_rt,
                   ev, hist, exit, now, storeVars, allocVars, packVars,
                   appsPackVars, raceVars>>

\* apps list: info.get fails on a record that is no dict
AppsList ==
    /\ pc = "idle"
    /\ cmds < MaxCmds
    /\ cmds' = cmds + 1
    /\ LET apps == Get(load_runtime(file).val, "apps", EmptyDict)
       IN  out' = [NoOut EXCEPT !.cmd = "list", !.raised =
                      /\ isinstance_dict(apps)
                      /\ \E n \in AppNames : ~isinstance_dict(Get(apps, n, EmptyDict))]
    /\ UNCHANGED <<file, dirs, foreign, procs, sigs, pc, todo, used, all_rt,
                   ev, hist, exit, now, storeVars, allocVars, packVars,
                   appsPackVars, raceVars>>

\* hub: (rt.get("apps", {}) or {}).items(), then info.get for every record
HubShow ==
    /\ pc = "idle"
    /\ cmds < MaxCmds
    /\ cmds' = cmds + 1
    /\ LET apps == Get(load_runtime(file).val, "apps", EmptyDict)
       IN  out' = [NoOut EXCEPT !.cmd = "hub", !.raised =
                      /\ truthy(apps)
                      /\ \/ ~isinstance_dict(apps)
                         \/ \E n \in DOMAIN apps.v : ~isinstance_dict(apps.v[n])]
    /\ UNCHANGED <<file, dirs, foreign, procs, sigs, pc, todo, used, all_rt,
                   ev, hist, exit, now, storeVars, allocVars, packVars,
                   appsPackVars, raceVars>>

\* snapshot: snapshot_rows_from_runtime, info.get for every app of the registry
Snapshot ==
    /\ pc = "idle"
    /\ cmds < MaxCmds
    /\ cmds' = cmds + 1
    /\ LET apps == Get(load_runtime(file).val, "apps", EmptyDict)
       IN  out' = [NoOut EXCEPT !.cmd = "snapshot", !.raised =
                      /\ isinstance_dict(apps)
                      /\ \E n \in AppNames : ~isinstance_dict(Get(apps, n, EmptyDict))]
    /\ UNCHANGED <<file, dirs, foreign, procs, sigs, pc, todo, used, all_rt,
                   ev, hist, exit, now, storeVars, allocVars, packVars,
                   appsPackVars, raceVars>>

\* apps_sync up to its loop
SyncBegin(sel) ==
    /\ pc = "idle"
    /\ cmds < MaxCmds
    /\ cmds' = cmds + 1
    /\ LET r == select_apps(sel)
       IN  IF r.raised
           THEN /\ pc' = "idle"
                /\ exit' = "error"
                /\ todo' = <<>>
                /\ ev' = [NoEvent EXCEPT !.op = "rejected", !.app = sel]
           ELSE /\ pc' = "sync"
                /\ exit' = "none"
                /\ todo' = r.apps
                /\ ev' = [NoEvent EXCEPT !.op = "begin-sync", !.app = sel]
    /\ out' = [NoOut EXCEPT !.cmd = "sync"]
    /\ UNCHANGED <<file, dirs, foreign, procs, sigs, used, all_rt, hist, now,
                   storeVars, allocVars, packVars, appsPackVars, raceVars>>

\* One pass of apps_sync's loop: git clone when the directory is missing,
\* git pull otherwise; rc is the command's return code, which _run_cmd
\* returns and apps_sync drops
SyncStep ==
    /\ pc = "sync"
    /\ todo # <<>>
    /\ \E rc \in {0, 1} :
          LET a == Head(todo)
          IN  /\ dirs' = IF a.name \notin dirs /\ rc = 0 THEN dirs \cup {a.name} ELSE dirs
              /\ out' = [out EXCEPT !.failed = IF rc = 0 THEN @ ELSE @ \cup {a.name}]
              /\ ev' = [NoEvent EXCEPT !.op = "git", !.app = a.name]
              /\ Continue(Tail(todo))
    /\ UNCHANGED <<file, foreign, procs, sigs, cmds, used, all_rt, hist, now,
                   storeVars, allocVars, packVars, appsPackVars, raceVars>>

\* up, to its first loop: the apps enabled by default
UpBegin ==
    /\ pc = "idle"
    /\ cmds < MaxCmds
    /\ cmds' = cmds + 1
    /\ LET defaults == SelectSeq(Registry, LAMBDA a : a.enabled_by_default)
       IN  /\ todo' = defaults
           /\ pc' = IF defaults = <<>> THEN "idle" ELSE "up-sync"
           /\ exit' = IF defaults = <<>> THEN "ok" ELSE "none"
    /\ ev' = [NoEvent EXCEPT !.op = "begin-up"]
    /\ out' = [NoOut EXCEPT !.cmd = "up"]
    /\ UNCHANGED <<file, dirs, foreign, procs, sigs, used, all_rt, hist, now,
                   storeVars, allocVars, packVars, appsPackVars, raceVars>>

\* One pass of up's first loop: apps_sync and apps_install of one app; after
\* the last, the second loop starts over the same apps
UpSyncStep ==
    /\ pc = "up-sync"
    /\ todo # <<>>
    /\ \E rc \in {0, 1} :
          LET a == Head(todo)
          IN  dirs' = IF a.name \notin dirs /\ rc = 0 THEN dirs \cup {a.name} ELSE dirs
    /\ ev' = [NoEvent EXCEPT !.op = "git", !.app = Head(todo).name]
    /\ IF Tail(todo) = <<>>
       THEN /\ todo' = SelectSeq(Registry, LAMBDA a : a.enabled_by_default)
            /\ pc' = "up-run"
       ELSE /\ todo' = Tail(todo)
            /\ pc' = pc
    /\ UNCHANGED <<file, foreign, procs, sigs, cmds, used, all_rt, hist, exit, now, out,
                   storeVars, allocVars, packVars, appsPackVars, raceVars>>

\* One pass of up's second loop: apps_run(name=a.name), which starts from
\* its own empty set used
UpRunStep ==
    /\ pc = "up-run"
    /\ todo # <<>>
    /\ LET a == app_by_name(Head(todo).name)
           rest == Tail(todo)
       IN  IF ~Eligible(a.name)
           THEN /\ ev' = [NoEvent EXCEPT !.op = "skip", !.app = a.name]
                /\ Continue(rest)
                /\ used' = {}
                /\ UNCHANGED <<file, procs, out, now>>
           ELSE LET r == allocate_port(a.default_port, a.port_max, UsedSet({}), Busy)
                IN  IF r.raised
                    THEN /\ ev' = [NoEvent EXCEPT !.op = "noport", !.app = a.name]
                         /\ out' = [out EXCEPT !.failed = @ \cup {a.name}]
                         /\ Abort(rest)
                         /\ used' = {}
                         /\ UNCHANGED <<file, procs, now>>
                    ELSE /\ used' = claim_port({}, r.port)
                         /\ \E spawned \in BOOLEAN :
                              IF ~spawned
                              THEN /\ ev' = [NoEvent EXCEPT !.op = "nospawn",
                                                !.app = a.name, !.port = r.port]
                                   /\ out' = [out EXCEPT !.failed = @ \cup {a.name}]
                                   /\ Abort(rest)
                                   /\ UNCHANGED <<file, procs, now>>
                              ELSE LET pid == Len(procs) + 1
                                       w == update_runtime_running(file, a.name,
                                               Payload(pid, r.port, a.name, now))
                                   IN  /\ Len(procs) < MaxProcs
                                       /\ procs' = Append(procs,
                                             [app |-> a.name, port |-> r.port,
                                              alive |-> TRUE, listening |-> FALSE])
                                       /\ now' = now + 1
                                       /\ file' = w.file
                                       /\ ev' = [NoEvent EXCEPT !.op = "launch",
                                                   !.app = a.name, !.pid = pid,
                                                   !.port = r.port]
                                       /\ out' = [out EXCEPT !.launched =
                                                     Append(@, [app |-> a.name, port |-> r.port])]
                                       /\ IF w.raised THEN Abort(rest) ELSE Continue(rest)
    /\ UNCHANGED <<dirs, foreign, sigs, cmds, all_rt, hist, storeVars, allocVars,
                   packVars, appsPackVars, raceVars>>

\* down: apps_stop(name=None, all_apps=True)
Down == StopBegin(All)

HubNext ==
    \/ Next
    \/ Status
    \/ AppsList
    \/ HubShow
    \/ Snapshot
    \/ \E sel \in Selections : SyncBegin(sel)
    \/ SyncStep
    \/ UpBegin
    \/ UpSyncStep
    \/ UpRunStep
    \/ Down

SpecHub == HubInit /\ [][HubNext]_vars

\* C14: apps status probes an app's health URL only if the app declares a
\* health path and its record says running; a network error of the probe
\* gives the health string "down"; and the command raises only on a store
\* whose "apps" value or whose record of an app is no mapping, never because
\* of a probe.
C14_ProbeOnlyRunningWithHealth ==
    out.cmd = "status" =>
        LET apps == Get(load_runtime(file).val, "apps", EmptyDict)
        IN  /\ \A n \in out.probed :
                  /\ app_by_name(n).health_path # ""
                  /\ truthy(Get(Get(apps, n, EmptyDict), "running", PyBool(FALSE)))
                  /\ out.answers[n] = "neterror" => out.health[n] = "down"
            /\ out.raised =>
                  \/ ~isinstance_dict(apps)
                  \/ \E n \in AppNames : ~isinstance_dict(Get(apps, n, EmptyDict))

C14_Witness ==
    /\ out.cmd = "status"
    /\ ~out.raised
    /\ out.probed = {"a"}
    /\ out.answers["a"] = "neterror"
    /\ out.health["a"] = "down"
    /\ out.health["b"] = "-"
    /\ \E i \in DOMAIN procs : procs[i].app = "a"

\* C15: when the git command of at least one app of an apps sync batch
\* returns a non-zero code, the sync command ends with a non-zero exit.
C15_SyncFailureSurfaced ==
    (out.cmd = "sync" /\ pc = "idle" /\ out.failed # {}) => exit = "error"

\* C16: no two apps started by one command invocation, apps run or up, are
\* given the same port.
C16_InvocationPortsDistinct ==
    /\ \A i, j \in DOMAIN out.launched :
          i # j => out.launched[i].port # out.launched[j].port
    /\ \A i, j \in DOMAIN hist.launched :
          i # j => hist.launched[i].port # hist.launched[j].port

\* C17: whatever the runtime file holds, apps run, apps stop and apps status
\* complete without raising: no status raises, and no pass of apps run or
\* apps stop ends the command with an error at its read or write of the store.
C17_CorruptionNeverFatal ==
    /\ ~(out.cmd = "status" /\ out.raised)
    /\ ~(ev.op \in {"launch", "stop", "badpid"} /\ exit = "error")

\* C19: over a readable runtime file, every step of every command keeps the
\* records the store has: an app that has a record has one afterwards.
C19_RecordsNeverDeleted ==
    [][isinstance_dict(FileApps) =>
          /\ isinstance_dict(FileApps')
          /\ DOMAIN FileApps.v \subseteq DOMAIN FileApps'.v]_vars

C19_Witness ==
    /\ isinstance_dict(FileApps)
    /\ DOMAIN FileApps.v = {"a", "b"}
    /\ isinstance_dict(FileApps.v["a"])
    /\ "pid" \notin DOMAIN FileApps.v["a"].v
    /\ ev.op = "stop"
    /\ ev.app = "b"
    /\ \E i \in DOMAIN procs : procs[i].app = "b"

\* C20: apps status, apps list, hub and snapshot leave the runtime file as
\* it is, and a record that says running=true stops saying so only in a
\* pass of apps stop (or down): never by itself when its process has died.
C20_NoAutomaticStopped ==
    [][LET Running(f, n) ==
              LET apps == Get(load_runtime(f).val, "apps", EmptyDict)
              IN  /\ isinstance_dict(apps)
                  /\ isinstance_dict(Get(apps, n, PyNone))
                  /\ Get(Get(apps, n, PyNone), "running", PyNone) = PyBool(TRUE)
       IN  /\ (out'.cmd \in {"status", "list", "hub", "snapshot"} /\ cmds' # cmds)
                 => file' = file
           /\ \A n \in AppNames : (Running(file, n) /\ ~Running(file', n)) => pc = "stop"]_vars

C20_Witness ==
    /\ out.cmd = "status"
    /\ \E i \in DOMAIN procs :
          /\ ~procs[i].alive
          /\ i \notin sigs
          /\ Get(Get(FileApps, procs[i].app, EmptyDict), "pid", PyNone) = PyInt(i)
          /\ Get(Get(FileApps, procs[i].app, EmptyDict), "running", PyNone) = PyBool(TRUE)


-----------------------------------------------------------------------------
(* Claims about the lifecycle of a RuntimeRecord, checked under Spec.       *)

\* C21: a launch replaces the app's whole record by the new one (running
\* true, the new pid and port, a new started_at), also when the record was
\* marked stopped, so nothing of the earlier stop is left in it; in every
\* state a record that says running=true has no stopped_at, and a record
\* with a stopped_at says running=false.
C21_RerunOverwritesRecord ==
    /\ \A n \in DOMAIN FileApps.v :
          LET info == FileApps.v[n]
          IN  isinstance_dict(info) =>
                /\ Get(info, "running", PyNone) = PyBool(TRUE)
                      => "stopped_at" \notin DOMAIN info.v
                /\ "stopped_at" \in DOMAIN info.v
                      => Get(info, "running", PyNone) = PyBool(FALSE)
    /\ ev.op = "launch" =>
          Get(FileApps, ev.app, PyNone) = Payload(ev.pid, ev.port, ev.app, now - 1)

\* b's record of an earlier session was stopped (its pid 41 was signalled,
\* which is followed by mark_stopped) and b has now been launched again
C21_Witness ==
    /\ ev.op = "launch"
    /\ ev.app = "b"
    /\ 41 \in sigs
    /\ Get(FileApps.v["b"], "running", PyNone) = PyBool(TRUE)
    /\ Get(FileApps.v["b"], "pid", PyNone) = PyInt(ev.pid)
    /\ "stopped_at" \notin DOMAIN FileApps.v["b"].v


\* C22: a pass of apps run's loop over an app whose working directory is
\* missing or whose start command is empty allocates and claims no port,
\* launches no process, leaves the runtime file as it is, raises nothing,
\* and the loop goes on with the next app.
C22_SkipLeavesNoTrace ==
    [][(/\ pc = "run"
        /\ todo # <<>>
        /\ todo' # todo
        /\ (Head(todo).name \notin dirs \/ Head(todo).start_cmd = ""))
       => /\ file' = file
          /\ procs' = procs
          /\ used' = used
          /\ hist' = hist
          /\ todo' = Tail(todo)
          /\ exit' # "error"
          /\ (Tail(todo) # <<>> => pc' = "run")]_vars

\* apps run --all with a's directory missing: a was skipped, its old record
\* is as it was, and b, the next app, has been launched
C22_Witness ==
    /\ pc = "run"
    /\ "a" \notin dirs
    /\ Len(hist.targets) = Len(Registry)
    /\ Len(hist.launched) = 1
    /\ hist.launched[1].app = "b"
    /\ "a" \in DOMAIN FileApps.v
    /\ FileApps.v["a"] = OldRecord({"running"})
    /\ Len(procs) = 1

\* C23: a command given a name that is in no registry fails with an error
\* at once, and no step taken for that name sends a signal or writes the
\* runtime file.
C23_UnknownNameRejected ==
    [][ev'.app = Ghost =>
          /\ ev'.op = "rejected"
          /\ exit' = "error"
          /\ pc' = "idle"
          /\ file' = file
          /\ sigs' = sigs]_vars

-----------------------------------------------------------------------------
(* Claims about the manifest's file list, checked under SpecPack.          *)

\* C24: the file list of a manifest that pack builds never holds the
\* manifest file, also when the directory holds the manifest of an earlier
\* pack, and a second pack of a packed directory lists the same paths as
\* the first.
C24_ManifestNeverListsItself ==
    /\ packs > 0 => MANIFEST_FILE_NAME \notin ListedInZip(lastZip) \cup ListedPaths(tree)
    /\ packs >= 2 => ListedInZip(lastZip) = ListedInZip(prevZip)

-----------------------------------------------------------------------------
(* Claims about which processes the runtime file tracks and which pids     *)
(* apps stop signals, checked under Spec.                                  *)

\* C25: every child that apps run launched, that is still alive and that
\* apps stop has not signalled is the pid stored in the record of its app.
C25_NoProcessLost ==
    \A i \in Alive :
        i \notin sigs =>
            Get(Get(FileApps, procs[i].app, EmptyDict), "pid", PyNone) = PyInt(i)

\* C26 as stated: a pass of apps stop over a name whose record says
\* running=false calls os.kill on no pid, the stale pid of the record
\* included, and leaves the record as it is.
C26_StopSignalsOnlyRunning ==
    [][(/\ pc = "stop"
        /\ todo # <<>>
        /\ todo' # todo
        /\ Get(Get(FileApps, Head(todo), EmptyDict), "running", PyNone) = PyBool(FALSE))
       => /\ ev'.sig = "none"
          /\ sigs' = sigs
          /\ Get(FileApps', Head(todo), PyNone) = Get(FileApps, Head(todo), PyNone)]_vars


\* C26 amended: a pass of apps stop calls os.kill exactly when the record
\* it loaded for the name holds a positive pid, and on that pid only,
\* whatever the record's running flag; over a record that already says
\* running=false it signals the pid kept in the record again and rewrites
\* stopped_at, the record's other fields staying as they were.
C26_StopSignalsRecordedPid ==
    [][(/\ pc = "stop"
        /\ todo # <<>>
        /\ todo' # todo)
       => LET n == Head(todo)
              info == Get(all_rt, n, EmptyDict)
              pid == IF isinstance_dict(info) /\ Get(info, "pid", PyInt(0)).t = "int"
                     THEN Get(info, "pid", PyInt(0)).v ELSE 0
              old == Get(FileApps, n, PyNone)
          IN  /\ ev'.sig # "none" <=> pid > 0
              /\ ev'.sig # "none" => (ev'.pid = pid /\ pid \in sigs')
              /\ sigs' \subseteq sigs \cup {pid}
              /\ (isinstance_dict(old) /\ Get(old, "running", PyNone) = PyBool(FALSE)) =>
                    Get(FileApps', n, PyNone)
                       = SetItem(old, "stopped_at", PyStr(ToString(now)))]_vars

\* The second apps stop b: the record it loaded said running=false and
\* held pid 41, and os.kill was called on 41
C26_Witness ==
    /\ ev.op = "stop"
    /\ ev.app = "b"
    /\ ev.pid = 41
    /\ ev.sig # "none"
    /\ "b" \in DOMAIN all_rt.v
    /\ Get(all_rt.v["b"], "running", PyNone) = PyBool(FALSE)
    /\ MarkedStopped("b")

\* C27: apps stop --all (and down) on a runtime store that holds no record,
\* or on no runtime file, ends without an error, sends no signal and
\* leaves the store empty.
C27_StopAllOnEmptyOk ==
    [][(/\ pc = "idle"
        /\ cmds' = cmds + 1
        /\ ev'.app = All
        /\ ev'.op # "begin-run"
        /\ DOMAIN FileApps.v = {})
       => /\ exit' # "error"
          /\ sigs' = sigs
          /\ DOMAIN FileApps'.v = {}]_vars

-----------------------------------------------------------------------------
(* A claim about what a successful verification proves, checked under      *)
(* SpecVerify.                                                             *)

\* C28: verify-artifact returns ok = true only if the files present in the
\* directory (or the entries of the archive), the manifest file left out,
\* are exactly the paths the manifest lists.
C28_VerifyProvesEquality ==
    /\ (vRes.target = "dir" /\ ~vRes.res.raised /\ vRes.res.ok) =>
          ListedPaths(tree) = DOMAIN tree \ {MANIFEST_FILE_NAME}
    /\ (vRes.target = "zip" /\ ~vRes.res.raised /\ vRes.res.ok) =>
          ListedInZip(zipOut) =
             { zipOut.v[i].name : i \in DOMAIN zipOut.v } \ {MANIFEST_FILE_NAME}


-----------------------------------------------------------------------------
(* SpecStopRace: the orchestrator with a second CLI invocation.  While an  *)
(* apps stop is between its load of the runtime file and the end of its    *)
(* loop, another invocation runs one app: the file has no lock.            *)

\* apps run n by another invocation, from its allocate_port to its
\* update_runtime_running
OtherRun(n) ==
    /\ pc = "stop"
    /\ cmds < MaxCmds
    /\ cmds' = cmds + 1
    /\ Eligible(n)
    /\ Len(procs) < MaxProcs
    /\ LET a == app_by_name(n)
           r == allocate_port(a.default_port, a.port_max, UsedSet({}), Busy)
           pid == Len(procs) + 1
       IN  /\ ~r.raised
           /\ procs' = Append(procs, [app |-> n, port |-> r.port,
                                      alive |-> TRUE, listening |-> FALSE])
           /\ file' = update_runtime_running(file, n, Payload(pid, r.port, n, now)).file
           /\ now' = now + 1
    /\ UNCHANGED <<dirs, foreign, sigs, pc, todo, used, all_rt, ev, hist,
                   exit, out, storeVars, allocVars, packVars, appsPackVars, raceVars>>

StopRaceNext ==
    \/ Next
    \/ \E n \in AppNames : OtherRun(n)

SpecStopRace == Init /\ [][StopRaceNext]_vars

\* C29 as stated: in a pass of apps stop that sends a signal, the pid
\* signalled is the pid stored in the record that mark_stopped then sets
\* to running=false, also when another invocation has run the app since
\* stop loaded the store.
C29_StopSignalsWhatItMarks ==
    [][(/\ pc = "stop"
        /\ todo # <<>>
        /\ todo' # todo
        /\ ev'.sig # "none")
       => LET new == Get(FileApps', Head(todo), PyNone)
          IN  /\ isinstance_dict(new)
              /\ Get(new, "running", PyNone) = PyBool(FALSE)
              /\ Get(new, "pid", PyNone) = PyInt(ev'.pid)]_vars

\* C29 amended: a pass of apps stop that sends a signal sends it to the
\* pid of the record stop loaded at its start, and mark_stopped sets
\* running=false and stopped_at in the record the file holds at that time,
\* keeping that record's pid: the two pids are the same when no other
\* invocation has rewritten the record since stop's load, and otherwise the
\* record marked is the one of the later launch.
C29_StopSignalsWhatItLoaded ==
    [][(/\ pc = "stop"
        /\ todo # <<>>
        /\ todo' # todo
        /\ ev'.sig # "none")
       => LET n == Head(todo)
              old == Get(FileApps, n, PyNone)
              new == Get(FileApps', n, PyNone)
          IN  /\ PyInt(ev'.pid) = Get(all_rt.v[n], "pid", PyNone)
              /\ isinstance_dict(old) =>
                    /\ isinstance_dict(new)
                    /\ Get(new, "running", PyNone) = PyBool(FALSE)
                    /\ "stopped_at" \in DOMAIN new.v
                    /\ Get(new, "pid", PyNone) = Get(old, "pid", PyNone)
                    /\ old = all_rt.v[n] => Get(new, "pid", PyNone) = PyInt(ev'.pid)]_vars

\* apps stop b loaded b's record with pid 41; another invocation then ran
\* b (pid 1); stop signalled 41 and marked the record of pid 1 stopped
C29_Witness ==
    /\ ev.op = "stop"
    /\ ev.app = "b"
    /\ ev.pid = 41
    /\ ev.sig # "none"
    /\ MarkedStopped("b")
    /\ Get(FileApps.v["b"], "pid", PyNone) = PyInt(1)
    /\ 1 \in Alive
    /\ 1 \notin sigs

-----------------------------------------------------------------------------
(* A claim about should_exclude and DEFAULT_EXCLUDES, checked under        *)
(* SpecAppsPack.                                                           *)

\* C30: without --include-build-output, apps pack leaves a file out of the
\* archive exactly when some part of its path is one of the names in
\* DEFAULT_EXCLUDES or its file name ends in .db or .sqlite.
C30_ExcludesAreTheDeclaredSet ==
    (apZip # NoZip /\ ~include_build_output) =>
        \A q \in DOMAIN apSrc :
            LET parts == PathParts(q)
                named == \/ \E i \in DOMAIN parts : parts[i] \in DEFAULT_EXCLUDES
                         \/ EndsWithDb(parts[Len(parts)])
            IN  ~HasEntry(apZip.v, q) <=> named

=============================================================================
